---------------------------- MODULE Spec2Model ----------------------------
(***************************************************************************)
(* Model of the host-side driver client/python3/client.py                  *)
(* (class Arduino8088Client): the command table, _send_command,            *)
(* _receive_n and the typed cmd_* operations, over a serial transport      *)
(* whose input buffer is the variable rx.                                  *)
(*                                                                         *)
(* A call is one action: it writes the request, the device's bytes that    *)
(* arrive before the read's timeout join the input buffer, the read takes  *)
(* at most n of them, and the result is computed as the method computes    *)
(* it.  The caller then consumes the result (the print(...) lines of the   *)
(* script) and may call again.                                             *)
(***************************************************************************)
EXTENDS Integers, Sequences, FiniteSets, TLC

VARIABLES pc,      \* "idle": no call made yet / result consumed; "returned": a call has returned
          rx,      \* bytes in the transport's input buffer, oldest first
          op,      \* name of the method that was called last ("none" when idle)
          args,    \* the arguments of that call
          rcv,     \* the bytes fd.read returned in that call
          log,     \* the transport events of that call, in order
          result,  \* what the call returned or raised
          thr,     \* concurrent callers: where each stands in its call and what it got
          trace,   \* concurrent callers: the transport events made, with who made each
          pending, \* concurrent callers: the requests the device has not answered yet
          owner    \* concurrent callers: for each byte of rx, whose request it answers

vars == <<pc, rx, op, args, rcv, log, result, thr, trace, pending, owner>>

\* the state of the single caller, and the state added for concurrent callers
soloVars == <<pc, op, args, rcv, log, result>>
concVars == <<thr, trace, pending, owner>>

-----------------------------------------------------------------------------
(* Bounds of the model *)

\* largest number of bytes that may stay in the input buffer after a call
MaxExtra == 1

\* number of calls each of the concurrent callers makes
MaxCalls == 1

-----------------------------------------------------------------------------
(* Python values *)

None == [tag |-> "None", name |-> <<>>, val |-> <<>>]
PyBool(b) == [tag |-> "bool", name |-> <<>>, val |-> <<IF b THEN 1 ELSE 0>>]
PyInt(v) == [tag |-> "int", name |-> <<>>, val |-> <<v>>]
PyList(l) == [tag |-> "list", name |-> <<>>, val |-> l]
\* a (str, int) tuple; the str is its sequence of code points
PyTuple(s, v) == [tag |-> "tuple", name |-> s, val |-> <<v>>]
Raise(exc) == [tag |-> exc, name |-> <<>>, val |-> <<>>]

Exceptions == {"AssertionError", "TypeError", "IndexError", "OverflowError"}
IsRaise(r) == r.tag \in Exceptions

\* the data argument of _send_command: None or a bytearray
NoData == [isNone |-> TRUE, bytes |-> <<>>]
Data(b) == [isNone |-> FALSE, bytes |-> b]

Min(a, b) == IF a < b THEN a ELSE b

\* Python's | on non-negative ints
RECURSIVE BitOr(_, _)
BitOr(a, b) ==
    IF a = 0 THEN b
    ELSE IF b = 0 THEN a
    ELSE (IF a % 2 = 1 \/ b % 2 = 1 THEN 1 ELSE 0) + 2 * BitOr(a \div 2, b \div 2)

\* Python's << on non-negative ints (unbounded)
Shl(a, k) == a * (2 ^ k)

-----------------------------------------------------------------------------
(* The command table *)

\* the table with CmdInvalid given the opcode of CmdGetCycleStatus
Command_dup_opcode ==
    [ CmdNone            |-> <<0, 0>>,
      CmdVersion         |-> <<1, 0>>,
      CmdReset           |-> <<2, 0>>,
      CmdLoad            |-> <<3, 28>>,
      CmdCycle           |-> <<4, 0>>,
      CmdReadAddress     |-> <<5, 0>>,
      CmdReadStatus      |-> <<6, 0>>,
      CmdRead8288Command |-> <<7, 0>>,
      CmdRead8288Control |-> <<8, 0>>,
      CmdReadDataBus     |-> <<9, 0>>,
      CmdWriteDataBus    |-> <<10, 1>>,
      CmdFinalize        |-> <<11, 0>>,
      CmdBeginStore      |-> <<12, 0>>,
      CmdStore           |-> <<13, 0>>,
      CmdQueueLen        |-> <<14, 0>>,
      CmdQueueBytes      |-> <<15, 0>>,
      CmdWritePin        |-> <<16, 2>>,
      CmdReadPin         |-> <<17, 1>>,
      CmdGetProgramState |-> <<18, 0>>,
      CmdLastError       |-> <<19, 0>>,
      CmdGetCycleStatus  |-> <<20, 0>>,
      CmdInvalid         |-> <<20, 0>> ]

Command ==
    [ CmdNone            |-> <<0, 0>>,
      CmdVersion         |-> <<1, 0>>,
      CmdReset           |-> <<2, 0>>,
      CmdLoad            |-> <<3, 28>>,
      CmdCycle           |-> <<4, 0>>,
      CmdReadAddress     |-> <<5, 0>>,
      CmdReadStatus      |-> <<6, 0>>,
      CmdRead8288Command |-> <<7, 0>>,
      CmdRead8288Control |-> <<8, 0>>,
      CmdReadDataBus     |-> <<9, 0>>,
      CmdWriteDataBus    |-> <<10, 1>>,
      CmdFinalize        |-> <<11, 0>>,
      CmdBeginStore      |-> <<12, 0>>,
      CmdStore           |-> <<13, 0>>,
      CmdQueueLen        |-> <<14, 0>>,
      CmdQueueBytes      |-> <<15, 0>>,
      CmdWritePin        |-> <<16, 2>>,
      CmdReadPin         |-> <<17, 1>>,
      CmdGetProgramState |-> <<18, 0>>,
      CmdLastError       |-> <<19, 0>>,
      CmdGetCycleStatus  |-> <<20, 0>>,
      CmdInvalid         |-> <<21, 0>> ]

Commands == DOMAIN Command

-----------------------------------------------------------------------------
(* The transport (pyserial) *)

WriteEv(b) == [ev |-> "write", arg |-> b]
ReadEv(n) == [ev |-> "read", arg |-> <<n>>]
SleepEv == [ev |-> "sleep", arg |-> <<>>]
FlushEv == [ev |-> "flush", arg |-> <<>>]

\* fd.read(n) with a timeout: at most n bytes, fewer when fewer have arrived
FdRead(n, buf) ==
    [ data |-> SubSeq(buf, 1, Min(n, Len(buf))),
      rest |-> SubSeq(buf, Min(n, Len(buf)) + 1, Len(buf)) ]

\* fd.flush(): pyserial waits until the output has been written; the input
\* buffer keeps its contents (discarding it is fd.reset_input_buffer())
FdFlush(buf) == buf

-----------------------------------------------------------------------------
(* int.to_bytes *)

\* v.to_bytes(1, 'big') for v in 0..255
ToBytes1(v) == <<v>>

\* v.to_bytes(2, 'little') for v in 0..0xFFFF; other values raise OverflowError
FitsUint16(v) == v >= 0 /\ v <= 65535
ToBytes2Little(v) == <<v % 256, v \div 256>>

-----------------------------------------------------------------------------
(* _send_command and _receive_n *)

\* _send_command(command, data): the transport writes it makes, in order,
\* and what it returns or raises
send_command(command, data) ==
    LET opcode == <<WriteEv(ToBytes1(Command[command][1]))>>
    IN  IF data.isNone /\ Command[command][2] = 0
          THEN [ret |-> PyBool(TRUE), log |-> opcode]
        ELSE IF data.isNone
          THEN [ret |-> Raise("TypeError"), log |-> opcode]
        ELSE IF Len(data.bytes) = Command[command][2]
          THEN [ret |-> PyBool(TRUE), log |-> opcode \o <<WriteEv(data.bytes)>>]
        ELSE [ret |-> Raise("AssertionError"), log |-> opcode]

\* _receive_n taking the status byte 0x00 for success as well
receive_n_zero_ok(n, buf) ==
    LET rd == FdRead(n, buf)
        rc == rd.data
    IN  IF Len(rc) = 0
          THEN [ret |-> Raise("IndexError"), rcv |-> rc, rx |-> rd.rest,
                log |-> <<ReadEv(n)>>]
        ELSE IF rc[Len(rc)] \in {0, 1}
          THEN [ret |-> PyList(rc), rcv |-> rc, rx |-> rd.rest,
                log |-> <<ReadEv(n)>>]
        ELSE [ret |-> None, rcv |-> rc, rx |-> FdFlush(rd.rest),
              log |-> <<ReadEv(n), SleepEv, FlushEv>>]

\* _receive_n flushing before the settle delay
receive_n_flush_first(n, buf) ==
    LET rd == FdRead(n, buf)
        rc == rd.data
    IN  IF Len(rc) = 0
          THEN [ret |-> Raise("IndexError"), rcv |-> rc, rx |-> rd.rest,
                log |-> <<ReadEv(n)>>]
        ELSE IF rc[Len(rc)] = 1
          THEN [ret |-> PyList(rc), rcv |-> rc, rx |-> rd.rest,
                log |-> <<ReadEv(n)>>]
        ELSE IF rc[Len(rc)] = 0
          THEN [ret |-> None, rcv |-> rc, rx |-> rd.rest,
                log |-> <<ReadEv(n)>>]
        ELSE [ret |-> None, rcv |-> rc, rx |-> FdFlush(rd.rest),
              log |-> <<ReadEv(n), FlushEv, SleepEv>>]

\* _receive_n resynchronizing on the status byte 0x00 as well
receive_n_resync_on_reject(n, buf) ==
    LET rd == FdRead(n, buf)
        rc == rd.data
    IN  IF Len(rc) = 0
          THEN [ret |-> Raise("IndexError"), rcv |-> rc, rx |-> rd.rest,
                log |-> <<ReadEv(n)>>]
        ELSE IF rc[Len(rc)] = 1
          THEN [ret |-> PyList(rc), rcv |-> rc, rx |-> rd.rest,
                log |-> <<ReadEv(n)>>]
        ELSE [ret |-> None, rcv |-> rc, rx |-> FdFlush(rd.rest),
              log |-> <<ReadEv(n), SleepEv, FlushEv>>]

\* _receive_n(n) on an input buffer buf: what it returns or raises, the bytes
\* read, the input buffer it leaves and the transport events it makes
receive_n(n, buf) ==
    LET rd == FdRead(n, buf)
        rc == rd.data
    IN  IF Len(rc) = 0
          THEN [ret |-> Raise("IndexError"), rcv |-> rc, rx |-> rd.rest,
                log |-> <<ReadEv(n)>>]
        ELSE IF rc[Len(rc)] = 1
          THEN [ret |-> PyList(rc), rcv |-> rc, rx |-> rd.rest,
                log |-> <<ReadEv(n)>>]
        ELSE IF rc[Len(rc)] = 0
          THEN [ret |-> None, rcv |-> rc, rx |-> rd.rest,
                log |-> <<ReadEv(n)>>]
        ELSE [ret |-> None, rcv |-> rc, rx |-> FdFlush(rd.rest),
              log |-> <<ReadEv(n), SleepEv, FlushEv>>]

\* a cmd_* opening that sends and reads a second time when the reply failed
Exchange_retry(command, data, n, buf) ==
    LET s == send_command(command, data)
    IN  IF IsRaise(s.ret)
          THEN [ret |-> s.ret, done |-> TRUE, rcv |-> <<>>, rx |-> buf, log |-> s.log]
        ELSE LET r == receive_n(n, buf)
                 r2 == receive_n(n, r.rx)
             IN  IF r.ret = None
                   THEN [ret |-> r2.ret, done |-> IsRaise(r2.ret), rcv |-> r2.rcv,
                         rx |-> r2.rx, log |-> s.log \o r.log \o s.log \o r2.log]
                 ELSE [ret |-> r.ret, done |-> IsRaise(r.ret), rcv |-> r.rcv,
                       rx |-> r.rx, log |-> s.log \o r.log]

\* the common opening of every cmd_*: send the command, return None when the
\* send returned False, otherwise read a reply of n bytes
Exchange(command, data, n, buf) ==
    LET s == send_command(command, data)
    IN  IF IsRaise(s.ret)
          THEN [ret |-> s.ret, done |-> TRUE, rcv |-> <<>>, rx |-> buf, log |-> s.log]
        ELSE IF s.ret = PyBool(FALSE)
          THEN [ret |-> None, done |-> TRUE, rcv |-> <<>>, rx |-> buf, log |-> s.log]
        ELSE LET r == receive_n(n, buf)
             IN  [ret |-> r.ret, done |-> IsRaise(r.ret), rcv |-> r.rcv, rx |-> r.rx,
                  log |-> s.log \o r.log]

\* a finished call: its result and what it left behind
Outcome(x, res) == [result |-> res, rcv |-> x.rcv, rx |-> x.rx, log |-> x.log]

-----------------------------------------------------------------------------
(* The typed operations, as functions of the bytes the read finds *)

\* cmd_version taking the version from one byte too far
cmd_version_off(buf) ==
    LET x == Exchange("CmdVersion", NoData, 9, buf)
        reply == x.ret.val
    IN  IF x.done THEN Outcome(x, x.ret)
        ELSE IF x.ret = None THEN Outcome(x, None)
        ELSE IF Len(reply) < 9 THEN Outcome(x, Raise("IndexError"))
        ELSE Outcome(x, PyTuple(SubSeq(reply, 1, Min(7, Len(reply))), reply[9]))

cmd_version(buf) ==
    LET x == Exchange("CmdVersion", NoData, 9, buf)
        reply == x.ret.val
    IN  IF x.done THEN Outcome(x, x.ret)
        ELSE IF x.ret = None THEN Outcome(x, None)
        ELSE IF Len(reply) < 8 THEN Outcome(x, Raise("IndexError"))
        ELSE Outcome(x, PyTuple(SubSeq(reply, 1, Min(7, Len(reply))), reply[8]))

cmd_reset(buf) ==
    LET x == Exchange("CmdReset", NoData, 1, buf)
    IN  IF x.done THEN Outcome(x, x.ret)
        ELSE Outcome(x, PyBool(x.ret = PyList(<<1>>)))

cmd_cycle(buf) ==
    LET x == Exchange("CmdCycle", NoData, 1, buf)
    IN  IF x.done THEN Outcome(x, x.ret)
        ELSE Outcome(x, PyBool(x.ret = PyList(<<1>>)))

\* cmd_read_address shifting the third byte by 8 instead of 16
cmd_read_address_shift(buf) ==
    LET x == Exchange("CmdReadAddress", NoData, 4, buf)
        rc == x.ret.val
    IN  IF x.done THEN Outcome(x, x.ret)
        ELSE IF x.ret = None THEN Outcome(x, None)
        ELSE IF Len(rc) < 3 THEN Outcome(x, Raise("IndexError"))
        ELSE Outcome(x, PyInt(BitOr(BitOr(rc[1], Shl(rc[2], 8)), Shl(rc[3], 8))))

cmd_read_address(buf) ==
    LET x == Exchange("CmdReadAddress", NoData, 4, buf)
        rc == x.ret.val
    IN  IF x.done THEN Outcome(x, x.ret)
        ELSE IF x.ret = None THEN Outcome(x, None)
        ELSE IF Len(rc) < 3 THEN Outcome(x, Raise("IndexError"))
        ELSE Outcome(x, PyInt(BitOr(BitOr(rc[1], Shl(rc[2], 8)), Shl(rc[3], 16))))

\* cmd_read_status taking a status value of 0 for a failure
cmd_read_status_falsy(buf) ==
    LET x == Exchange("CmdReadStatus", NoData, 2, buf)
        rc == x.ret.val
    IN  IF x.done THEN Outcome(x, x.ret)
        ELSE IF x.ret = None THEN Outcome(x, None)
        ELSE IF rc[1] = 0 THEN Outcome(x, None)
        ELSE Outcome(x, PyInt(rc[1]))

\* cmd_read_status reading the payload byte without the status byte
cmd_read_status_one(buf) ==
    LET x == Exchange("CmdReadStatus", NoData, 1, buf)
        rc == x.ret.val
    IN  IF x.done THEN Outcome(x, x.ret)
        ELSE IF x.ret = None THEN Outcome(x, None)
        ELSE Outcome(x, PyInt(rc[1]))

cmd_read_status(buf) ==
    LET x == Exchange("CmdReadStatus", NoData, 2, buf)
        rc == x.ret.val
    IN  IF x.done THEN Outcome(x, x.ret)
        ELSE IF x.ret = None THEN Outcome(x, None)
        ELSE Outcome(x, PyInt(rc[1]))

cmd_read_8288_command(buf) ==
    LET x == Exchange("CmdRead8288Command", NoData, 2, buf)
        rc == x.ret.val
    IN  IF x.done THEN Outcome(x, x.ret)
        ELSE IF x.ret = None THEN Outcome(x, None)
        ELSE Outcome(x, PyInt(rc[1]))

cmd_read_8288_control(buf) ==
    LET x == Exchange("CmdRead8288Control", NoData, 2, buf)
        rc == x.ret.val
    IN  IF x.done THEN Outcome(x, x.ret)
        ELSE IF x.ret = None THEN Outcome(x, None)
        ELSE Outcome(x, PyInt(rc[1]))

\* the order in which cmd_load appends the registers
RegOrder == <<"AX", "BX", "CX", "DX", "SS", "SP", "FLAGS", "IP", "CS", "DS", "ES",
              "BP", "SI", "DI">>

\* cmd_load's out with SS and SP appended in the other order
LoadPayload_order(r) ==
    ToBytes2Little(r.AX) \o ToBytes2Little(r.BX) \o ToBytes2Little(r.CX)
      \o ToBytes2Little(r.DX) \o ToBytes2Little(r.SP) \o ToBytes2Little(r.SS)
      \o ToBytes2Little(r.FLAGS) \o ToBytes2Little(r.IP) \o ToBytes2Little(r.CS)
      \o ToBytes2Little(r.DS) \o ToBytes2Little(r.ES) \o ToBytes2Little(r.BP)
      \o ToBytes2Little(r.SI) \o ToBytes2Little(r.DI)

\* cmd_load's out: the 14 registers, two bytes each
LoadPayload(r) ==
    ToBytes2Little(r.AX) \o ToBytes2Little(r.BX) \o ToBytes2Little(r.CX)
      \o ToBytes2Little(r.DX) \o ToBytes2Little(r.SS) \o ToBytes2Little(r.SP)
      \o ToBytes2Little(r.FLAGS) \o ToBytes2Little(r.IP) \o ToBytes2Little(r.CS)
      \o ToBytes2Little(r.DS) \o ToBytes2Little(r.ES) \o ToBytes2Little(r.BP)
      \o ToBytes2Little(r.SI) \o ToBytes2Little(r.DI)

\* cmd_load keeping the low 16 bits of each register instead of failing
cmd_load_masked(r, buf) ==
    LET m == [k \in DOMAIN r |-> r[k] % 65536]
        x == Exchange("CmdLoad", Data(LoadPayload(m)), 1, buf)
    IN  IF x.done THEN Outcome(x, x.ret)
        ELSE Outcome(x, PyBool(x.ret = PyList(<<1>>)))

cmd_load(r, buf) ==
    IF \E k \in 1..14 : ~FitsUint16(r[RegOrder[k]])
      THEN [result |-> Raise("OverflowError"), rcv |-> <<>>, rx |-> buf, log |-> <<>>]
    ELSE IF Len(LoadPayload(r)) # 28
      THEN [result |-> Raise("AssertionError"), rcv |-> <<>>, rx |-> buf, log |-> <<>>]
    ELSE LET x == Exchange("CmdLoad", Data(LoadPayload(r)), 1, buf)
         IN  IF x.done THEN Outcome(x, x.ret)
             ELSE Outcome(x, PyBool(x.ret = PyList(<<1>>)))

\* cmd_store's loop reading each pair high byte first
StoreDecode_swapped(rc) ==
    [i \in 1..14 |-> BitOr(Shl(rc[(i - 1) * 2 + 1], 8), rc[(i - 1) * 2 + 2])]

\* cmd_store's loop: element i (from 0) is (rc[2i+1] << 8) | rc[2i]
StoreDecode(rc) ==
    [i \in 1..14 |-> BitOr(Shl(rc[(i - 1) * 2 + 2], 8), rc[(i - 1) * 2 + 1])]

\* cmd_store reading the 28 payload bytes without the status byte
cmd_store_28(buf) ==
    LET x == Exchange("CmdStore", NoData, 28, buf)
        rc == x.ret.val
    IN  IF x.done THEN Outcome(x, x.ret)
        ELSE IF x.ret = None THEN Outcome(x, None)
        ELSE IF Len(rc) < 28 THEN Outcome(x, Raise("IndexError"))
        ELSE Outcome(x, PyList(StoreDecode(rc)))

cmd_store(buf) ==
    LET x == Exchange("CmdStore", NoData, 29, buf)
        rc == x.ret.val
    IN  IF x.done THEN Outcome(x, x.ret)
        ELSE IF x.ret = None THEN Outcome(x, None)
        ELSE IF Len(rc) < 28 THEN Outcome(x, Raise("IndexError"))
        ELSE Outcome(x, PyList(StoreDecode(rc)))

-----------------------------------------------------------------------------
(* Inputs: what the callers pass and what the device sends *)

\* status bytes the device ends a reply with: failure, success, neither (0x7F)
StatusSamples == {0, 1, 127}

\* bytes that follow a reply in the stream: 0x01, 0x7F
ExtraBytes == {1, 127}

Extras == UNION {[1..k -> ExtraBytes] : k \in 0..MaxExtra}

\* what may arrive before the read of an n-byte reply times out: a full reply
\* (payload and status byte) with or without bytes after it, or only the
\* first k < n bytes of one
Arrivals(n, payloads) ==
    LET full == {pl \o <<s>> : pl \in payloads, s \in StatusSamples}
    IN  {SubSeq(f, 1, k) : f \in full, k \in 0..(n - 1)}
          \cup {f \o e : f \in full, e \in Extras}

NoPayload == {<<>>}

\* one-byte reply payloads: 0x00, 0x01, 0x12, 0x7F, 0xFF
BytePayloads == {<<b>> : b \in {0, 1, 18, 127, 255}}

\* address bytes 0x00, 0x12, 0x34, 0xFF
AddressPayloads == {<<b0, b1, b2>> : b0, b1, b2 \in {0, 18, 52, 255}}

\* "Ardui88", seven zero bytes, seven 0x01 bytes; versions 0, 1, 7, 255
VersionPayloads ==
    {nm \o <<v>> : nm \in {<<65, 114, 100, 117, 105, 56, 56>>,
                           <<0, 0, 0, 0, 0, 0, 0>>,
                           <<1, 1, 1, 1, 1, 1, 1>>},
                   v \in {0, 1, 7, 255}}

\* a register file from a sequence of 14 values in RegOrder
RegsOf(f) ==
    [AX |-> f[1], BX |-> f[2], CX |-> f[3], DX |-> f[4], SS |-> f[5], SP |-> f[6],
     FLAGS |-> f[7], IP |-> f[8], CS |-> f[9], DS |-> f[10], ES |-> f[11],
     BP |-> f[12], SI |-> f[13], DI |-> f[14]]

\* pairs of register values <<a, b>>: 0x1234/0xFF00, 0xFFFF/0x0000,
\* 0x00FF/0xFFFF, 0x0000/0x1234
RegVals == {<<4660, 65280>>, <<65535, 0>>, <<255, 65535>>, <<0, 4660>>}

\* pairs whose first value does not fit 16 bits
BadRegVals == {<<-1, 0>>, <<65536, 4660>>}

\* register files with value a in one register and b in the 13 others, and
\* the script's 1..14
GoodRegs ==
    {RegsOf([k \in 1..14 |-> IF k = p THEN ab[1] ELSE ab[2]]) :
        p \in 1..14, ab \in RegVals}
      \cup {RegsOf([k \in 1..14 |-> k])}

BadRegs ==
    {RegsOf([k \in 1..14 |-> IF k = p THEN ab[1] ELSE ab[2]]) :
        p \in 1..14, ab \in BadRegVals}

StorePayloads == {LoadPayload(r) : r \in GoodRegs}

\* data arguments for a direct _send_command: None, or 0, 1, 2, 3, 27, 28 or
\* 29 bytes
DataSamples ==
    {NoData} \cup {Data([i \in 1..n |-> b]) : n \in {0, 1, 2, 3, 27, 28, 29}, b \in {0, 1}}

NoArgs == [kind |-> "none"]

\* two threads that share one Arduino8088Client
Callers == {"A", "B"}

\* a caller between calls, having made k calls
IdleCaller(k) == [at |-> "idle", op |-> "none", rcv |-> <<>>, result |-> None,
                  got |-> {}, todo |-> <<>>, calls |-> k]

-----------------------------------------------------------------------------
(* The state machine *)

Init ==
    /\ pc = "idle"
    /\ rx = <<>>
    /\ op = "none"
    /\ args = NoArgs
    /\ rcv = <<>>
    /\ log = <<>>
    /\ result = None
    /\ thr = [c \in Callers |-> IdleCaller(0)]
    /\ trace = <<>>
    /\ pending = <<>>
    /\ owner = <<>>

\* a call of method name with arguments a that ends as o
Call(name, a, o) ==
    /\ pc = "idle"
    /\ Len(o.rx) <= MaxExtra
    /\ pc' = "returned"
    /\ op' = name
    /\ args' = a
    /\ rcv' = o.rcv
    /\ log' = o.log
    /\ result' = o.result
    /\ rx' = o.rx
    /\ UNCHANGED concVars

Call_send_command ==
    \E c \in Commands, d \in DataSamples :
        LET s == send_command(c, d)
        IN  Call("_send_command", [kind |-> "send", command |-> c, data |-> d],
                 [result |-> s.ret, rcv |-> <<>>, rx |-> rx, log |-> s.log])

Call_cmd_version ==
    \E a \in Arrivals(9, VersionPayloads) :
        Call("cmd_version", NoArgs, cmd_version(rx \o a))

Call_cmd_reset ==
    \E a \in Arrivals(1, NoPayload) :
        Call("cmd_reset", NoArgs, cmd_reset(rx \o a))

Call_cmd_load ==
    \E r \in GoodRegs \cup BadRegs, a \in Arrivals(1, NoPayload) :
        Call("cmd_load", [kind |-> "regs", regs |-> r], cmd_load(r, rx \o a))

Call_cmd_cycle ==
    \E a \in Arrivals(1, NoPayload) :
        Call("cmd_cycle", NoArgs, cmd_cycle(rx \o a))

Call_cmd_read_address ==
    \E a \in Arrivals(4, AddressPayloads) :
        Call("cmd_read_address", NoArgs, cmd_read_address(rx \o a))

Call_cmd_read_status ==
    \E a \in Arrivals(2, BytePayloads) :
        Call("cmd_read_status", NoArgs, cmd_read_status(rx \o a))

Call_cmd_read_8288_command ==
    \E a \in Arrivals(2, BytePayloads) :
        Call("cmd_read_8288_command", NoArgs, cmd_read_8288_command(rx \o a))

Call_cmd_read_8288_control ==
    \E a \in Arrivals(2, BytePayloads) :
        Call("cmd_read_8288_control", NoArgs, cmd_read_8288_control(rx \o a))

Call_cmd_store ==
    \E a \in Arrivals(29, StorePayloads) :
        Call("cmd_store", NoArgs, cmd_store(rx \o a))

\* the caller has used the result (the script prints it) and goes on
Consume ==
    /\ pc = "returned"
    /\ pc' = "idle"
    /\ op' = "none"
    /\ args' = NoArgs
    /\ rcv' = <<>>
    /\ log' = <<>>
    /\ result' = None
    /\ UNCHANGED rx
    /\ UNCHANGED concVars

Next ==
    \/ Call_send_command
    \/ Call_cmd_version
    \/ Call_cmd_reset
    \/ Call_cmd_load
    \/ Call_cmd_cycle
    \/ Call_cmd_read_address
    \/ Call_cmd_read_status
    \/ Call_cmd_read_8288_command
    \/ Call_cmd_read_8288_control
    \/ Call_cmd_store
    \/ Consume

Spec == Init /\ [][Next]_vars

-----------------------------------------------------------------------------
(* Vocabulary of the properties *)

TypedOps == {"cmd_version", "cmd_reset", "cmd_load", "cmd_cycle", "cmd_read_address",
             "cmd_read_status", "cmd_read_8288_command", "cmd_read_8288_control",
             "cmd_store"}

\* the table entry each typed operation sends
CommandOf ==
    [ cmd_version |-> "CmdVersion", cmd_reset |-> "CmdReset", cmd_load |-> "CmdLoad",
      cmd_cycle |-> "CmdCycle", cmd_read_address |-> "CmdReadAddress",
      cmd_read_status |-> "CmdReadStatus",
      cmd_read_8288_command |-> "CmdRead8288Command",
      cmd_read_8288_control |-> "CmdRead8288Control", cmd_store |-> "CmdStore" ]

\* the same operation, run again on another input buffer
Run(name, a, buf) ==
    CASE name = "cmd_version" -> cmd_version(buf)
      [] name = "cmd_reset" -> cmd_reset(buf)
      [] name = "cmd_load" -> cmd_load(a.regs, buf)
      [] name = "cmd_cycle" -> cmd_cycle(buf)
      [] name = "cmd_read_address" -> cmd_read_address(buf)
      [] name = "cmd_read_status" -> cmd_read_status(buf)
      [] name = "cmd_read_8288_command" -> cmd_read_8288_command(buf)
      [] name = "cmd_read_8288_control" -> cmd_read_8288_control(buf)
      [] name = "cmd_store" -> cmd_store(buf)

Returned(names) == pc = "returned" /\ op \in names

Writes == SelectSeq(log, LAMBDA e : e.ev = "write")
Reads == SelectSeq(log, LAMBDA e : e.ev = "read")
Flushes == SelectSeq(log, LAMBDA e : e.ev = "flush")

\* the call read once and the read returned as many bytes as it asked for
FullReply == Len(Reads) = 1 /\ Len(rcv) = Reads[1].arg[1]
\* the call read once and the read returned fewer bytes than it asked for
ShortReply == Len(Reads) = 1 /\ Len(rcv) < Reads[1].arg[1]
LastByte == rcv[Len(rcv)]

\* the values with which the operations report failure
IsFailure(r) == r = None \/ r = PyBool(FALSE)
\* a value an operation returns on success
IsSuccess(r) == r.tag \in {"int", "list", "tuple"} \/ r = PyBool(TRUE)

\* the data argument of a direct _send_command differs in length from the
\* table entry (None counts as a mismatch when the entry is not 0)
WrongLength ==
    IF args.data.isNone THEN Command[args.command][2] # 0
    ELSE Len(args.data.bytes) # Command[args.command][2]

-----------------------------------------------------------------------------
(* C1 *)

\* C1: a _send_command whose payload length differs from the table entry of
\* its command (an absent payload for a non-zero entry included) is rejected
\* with an error and has written no byte to the transport.
C1_WrongLengthWritesNothing ==
    (Returned({"_send_command"}) /\ WrongLength)
        => (IsRaise(result) /\ Writes = <<>>)

-----------------------------------------------------------------------------
(* C2 *)

\* C2: when the read of a typed operation returns fewer bytes than the reply
\* length it asked for, the operation fails: it returns no success value.
C2_ShortReadFails ==
    (Returned(TypedOps) /\ ShortReply) => ~IsSuccess(result)

-----------------------------------------------------------------------------
(* C3 *)

\* C3: when a full-length reply ends in a byte that is neither 0x00 nor 0x01,
\* the call returns a failure and the transport's input buffer is empty when
\* it returns, so the next call's read sees only bytes that arrive later.
C3_OutOfSyncEmptiesInput ==
    (Returned(TypedOps) /\ FullReply /\ LastByte \notin {0, 1})
        => (IsFailure(result) /\ rx = <<>>)

-----------------------------------------------------------------------------
(* C4 *)

\* C4: for every typed operation, a full-length reply whose final byte is
\* 0x00 yields a failure value and never a success value, whatever the bytes
\* before it.
C4_RejectedIsFailure ==
    (Returned(TypedOps) /\ FullReply /\ LastByte = 0)
        => (IsFailure(result) /\ ~IsSuccess(result))

\* cmd_read_address has returned None on a reply 0x34 0x12 .. 0x00
C4_Witness ==
    /\ Returned({"cmd_read_address"}) /\ FullReply /\ LastByte = 0
    /\ rcv[1] = 52 /\ rcv[2] = 18
    /\ result = None

-----------------------------------------------------------------------------
(* C5 *)

\* the reply of this call with its final byte replaced by b
ReplyEndingIn(b) == [rcv EXCEPT ![Len(rcv)] = b]

\* C5: the result for a full-length reply ending in 0x00 (device
\* rejected) differs from the result the operation gives for the same reply
\* ending in a byte other than 0x00/0x01 (out of sync): the value identifies
\* the kind of failure.
C5_KindIdentified ==
    (Returned(TypedOps) /\ FullReply /\ LastByte = 0)
        => result # Run(op, args, ReplyEndingIn(127)).result

-----------------------------------------------------------------------------
(* C6 *)

\* C6: whatever the outcome, one call of a typed operation writes its request
\* at most once (the opcode once, then the payload if the command has one) and
\* reads a reply at most once.
C6_NoRetry ==
    Returned(TypedOps)
        => /\ Len(Reads) <= 1
           /\ Len(Writes) <= (IF Command[CommandOf[op]][2] = 0 THEN 1 ELSE 2)
           /\ Len(SelectSeq(Writes,
                    LAMBDA e : e.arg = <<Command[CommandOf[op]][1]>>)) <= 1

\* cmd_version has failed on an out-of-sync reply after one write and one read
C6_Witness ==
    /\ Returned({"cmd_version"}) /\ FullReply /\ LastByte = 127
    /\ result = None
    /\ Len(Writes) = 1 /\ Len(Reads) = 1

-----------------------------------------------------------------------------
(* C7 *)

\* the 14 values of a register file in the declared order
RegList(r) == [k \in 1..14 |-> r[RegOrder[k]]]

\* C7: for every register file r, cmd_store on the 28 bytes cmd_load encodes
\* for r, followed by 0x01, returns the 14 values of r in the order AX .. DI.
C7_RoundTrip ==
    (Returned({"cmd_store"}) /\ FullReply /\ LastByte = 1)
        => \A r \in GoodRegs :
              rcv = LoadPayload(r) \o <<1>> => result = PyList(RegList(r))

\* cmd_store has decoded the encoding of CX = 0x1234, the others 0xFF00
C7_Witness ==
    /\ Returned({"cmd_store"}) /\ FullReply /\ LastByte = 1
    /\ rcv = LoadPayload(RegsOf([k \in 1..14 |-> IF k = 3 THEN 4660 ELSE 65280])) \o <<1>>
    /\ result = PyList([k \in 1..14 |-> IF k = 3 THEN 4660 ELSE 65280])

-----------------------------------------------------------------------------
(* C8 *)

\* C8: cmd_load with 14 values in 0..0xFFFF sends, after the opcode, a
\* payload of exactly 28 bytes whose bytes 2k and 2k+1 (from 0) are the low
\* and the high byte of the k-th register in the order AX .. DI.
C8_LoadLayout ==
    (Returned({"cmd_load"}) /\ \A k \in 1..14 : args.regs[RegOrder[k]] \in 0..65535)
        => /\ Len(Writes) = 2
           /\ Len(Writes[2].arg) = 28
           /\ \A k \in 1..14 :
                /\ Writes[2].arg[2 * k - 1] = args.regs[RegOrder[k]] % 256
                /\ Writes[2].arg[2 * k] = args.regs[RegOrder[k]] \div 256

\* cmd_load has sent the script's registers 1 .. 14
C8_Witness ==
    /\ Returned({"cmd_load"})
    /\ args.regs = RegsOf([k \in 1..14 |-> k])
    /\ Len(Writes) = 2
    /\ Writes[2].arg = <<1, 0, 2, 0, 3, 0, 4, 0, 5, 0, 6, 0, 7, 0, 8, 0, 9, 0, 10, 0,
                         11, 0, 12, 0, 13, 0, 14, 0>>

-----------------------------------------------------------------------------
(* C9 *)

\* C9: cmd_read_address on a 4-byte reply b0 b1 b2 0x01 returns
\* b0 + 256*b1 + 65536*b2, a value in 0..0xFFFFFF.
C9_ReadAddress ==
    (Returned({"cmd_read_address"}) /\ FullReply /\ LastByte = 1)
        => /\ result = PyInt(rcv[1] + 256 * rcv[2] + 65536 * rcv[3])
           /\ result.val[1] \in 0..16777215

\* cmd_read_address has returned 0x001234 on 0x34 0x12 0x00 0x01
C9_Witness ==
    /\ Returned({"cmd_read_address"})
    /\ rcv = <<52, 18, 0, 1>>
    /\ result = PyInt(4660)

-----------------------------------------------------------------------------
(* C10 *)

\* C10: cmd_version on a 9-byte reply ending in 0x01 returns the pair of the
\* first 7 reply bytes as characters and reply byte 7 (from 0) as the
\* version; the status byte is in neither.
C10_Version ==
    (Returned({"cmd_version"}) /\ FullReply /\ LastByte = 1)
        => /\ result.tag = "tuple"
           /\ result.name = SubSeq(rcv, 1, 7)
           /\ result.val = <<rcv[8]>>

\* cmd_version has returned ("Ardui88", 7)
C10_Witness ==
    /\ Returned({"cmd_version"})
    /\ rcv = <<65, 114, 100, 117, 105, 56, 56, 7, 1>>
    /\ result = PyTuple(<<65, 114, 100, 117, 105, 56, 56>>, 7)

-----------------------------------------------------------------------------
(* C11 *)

ByteReaders == {"cmd_read_status", "cmd_read_8288_command", "cmd_read_8288_control"}

\* C11: cmd_read_status, cmd_read_8288_command and cmd_read_8288_control on a
\* 2-byte reply v 0x01 return v, whatever v is (0x00 and 0x7F included); on a
\* full reply success is decided by the final byte alone, and a returned 0 is
\* not a failure value.
C11_ByteValue ==
    (Returned(ByteReaders) /\ FullReply)
        => /\ IsSuccess(result) <=> LastByte = 1
           /\ LastByte = 1 => (result = PyInt(rcv[1]) /\ ~IsFailure(result))

\* cmd_read_status has returned the int 0 on the reply 0x00 0x01
C11_Witness ==
    /\ Returned({"cmd_read_status"})
    /\ rcv = <<0, 1>>
    /\ result = PyInt(0)
    /\ result # None

-----------------------------------------------------------------------------
(* C12 *)

\* what the claim says of every entry: opcode in 0x00..0x15, no opcode twice,
\* payload length 0, 1, 2 or 28
EntriesWellFormed ==
    /\ \A c \in Commands : Command[c][1] \in 0..21 /\ Command[c][2] \in {0, 1, 2, 28}
    /\ \A c, d \in Commands : Command[c][1] = Command[d][1] => c = d

\* C12 (as claimed): wherever the caller stands, the command table has 21
\* commands, each with an opcode in 0x00..0x15 that no other entry has and a
\* payload length of 0, 1, 2 or 28.
C12_TwentyOneCommands ==
    pc \in {"idle", "returned"}
        => /\ Cardinality(Commands) = 21
           /\ EntriesWellFormed

\* C12 (amended): the command table has 22 commands, each with an opcode
\* in 0x00..0x15 that no other entry has and a payload length of 0, 1, 2 or
\* 28; the opcode a _send_command writes is the one of its command alone.
C12_CommandTable ==
    /\ Cardinality(Commands) = 22
    /\ EntriesWellFormed
    /\ Returned({"_send_command"})
         => \A c \in Commands : Writes[1].arg = <<Command[c][1]>> => c = args.command

\* _send_command has written the opcode 0x15 of the 22nd entry, CmdInvalid
C12_Witness ==
    /\ Returned({"_send_command"})
    /\ args.command = "CmdInvalid"
    /\ Writes[1].arg = <<21>>

-----------------------------------------------------------------------------
(* C13 *)

RECURSIVE Flatten(_)
Flatten(evs) == IF evs = <<>> THEN <<>> ELSE Head(evs).arg \o Flatten(Tail(evs))

\* all the bytes this call has written, in order
Written == Flatten(Writes)

\* the table entry of this call
CallCommand == IF op = "_send_command" THEN args.command ELSE CommandOf[op]

\* C13: the bytes a call writes are the opcode of its command followed by
\* exactly the number of payload bytes the table declares for it, and nothing
\* else: 1 + declared length bytes in all.
C13_RequestFraming ==
    (pc = "returned" /\ Written # <<>>)
        => /\ Written[1] = Command[CallCommand][1]
           /\ Len(Written) = 1 + Command[CallCommand][2]
           /\ op = "_send_command" => Tail(Written) = args.data.bytes
           /\ op = "cmd_load" => Tail(Written) = LoadPayload(args.regs)

-----------------------------------------------------------------------------
(* C14 *)

\* C14: cmd_reset, cmd_load and cmd_cycle, once the request is sent, return
\* True exactly when the reply read is the single byte 0x01 and False for
\* every other outcome, no reply before the timeout included.
C14_TrueIffOne ==
    (Returned({"cmd_reset", "cmd_load", "cmd_cycle"}) /\ Written # <<>>)
        => result = PyBool(rcv = <<1>>)

-----------------------------------------------------------------------------
(* C16 *)

\* C16: on an out-of-sync status byte the call waits the settle delay, then
\* flushes the transport, then returns the failure; a settle delay is never
\* left without its flush when a call returns, so no call starts in the
\* middle of a resynchronization.
C16_SleepThenFlush ==
    /\ (Returned(TypedOps) /\ FullReply /\ LastByte \notin {0, 1})
          => /\ SubSeq(log, Len(log) - 2, Len(log)) = <<Reads[1], SleepEv, FlushEv>>
             /\ IsFailure(result)
    /\ \A i \in 1..Len(log) :
          log[i] = SleepEv => (i < Len(log) /\ log[i + 1] = FlushEv)
    /\ pc = "idle" => log = <<>>

\* cmd_reset has read 0x7F, slept, flushed and returned False
C16_Witness ==
    /\ Returned({"cmd_reset"})
    /\ rcv = <<127>>
    /\ log = <<WriteEv(<<2>>), ReadEv(1), SleepEv, FlushEv>>
    /\ result = PyBool(FALSE)

-----------------------------------------------------------------------------
(* C17 *)

\* the reply lengths the claim lists: payload size plus one status byte
ReplyLen ==
    [ cmd_version |-> 9, cmd_reset |-> 1, cmd_load |-> 1, cmd_cycle |-> 1,
      cmd_read_address |-> 4, cmd_read_status |-> 2, cmd_read_8288_command |-> 2,
      cmd_read_8288_control |-> 2, cmd_store |-> 29 ]

\* C17: a typed operation that has sent its request asks for its reply in one
\* read of a fixed length (9, 1, 1, 1, 4, 2, 2, 2, 29 in the order
\* of the table above), whatever bytes it receives.
C17_FixedReplyLength ==
    (Returned(TypedOps) /\ Written # <<>>) => Reads = <<ReadEv(ReplyLen[op])>>

\* cmd_store has asked for 29 bytes and got 3
C17_Witness ==
    /\ Returned({"cmd_store"})
    /\ Reads = <<ReadEv(29)>>
    /\ Len(rcv) = 3

-----------------------------------------------------------------------------
(* C19 *)

\* C19: a call whose full-length reply ends in 0x01 or 0x00 makes no settle
\* delay and no flush, and the bytes that were buffered before it are still
\* in the stream, in order: in the reply read or left in the input buffer
\* behind it.
C19_NoResyncOnStatus ==
    [][ (pc = "idle" /\ pc' = "returned" /\ op' \in TypedOps
           /\ FullReply' /\ LastByte' \in {0, 1})
          => /\ \A i \in 1..Len(log') : log'[i].ev \notin {"sleep", "flush"}
             /\ SubSeq(rcv' \o rx', 1, Len(rx)) = rx
             /\ rx' = SubSeq(rcv' \o rx', Len(rcv') + 1, Len(rcv') + Len(rx')) ]_vars

\* cmd_read_address has been rejected with one byte left behind its reply
C19_Witness ==
    /\ Returned({"cmd_read_address"}) /\ FullReply /\ LastByte = 0
    /\ rx = <<1>>
    /\ log = <<WriteEv(<<5>>), ReadEv(4)>>

-----------------------------------------------------------------------------
(* C20 *)

\* C20: cmd_load with a register argument outside 0..0xFFFF fails while it
\* builds the payload: it raises, writes nothing and reads nothing.
C20_RangeCheck ==
    (Returned({"cmd_load"}) /\ \E k \in 1..14 : args.regs[RegOrder[k]] \notin 0..65535)
        => /\ result = Raise("OverflowError")
           /\ log = <<>>
           /\ rcv = <<>>

\* cmd_load has raised on DI = 0x10000 without touching the transport
C20_Witness ==
    /\ Returned({"cmd_load"})
    /\ args.regs.DI = 65536
    /\ result = Raise("OverflowError")
    /\ log = <<>>

-----------------------------------------------------------------------------
(* C18: a device that answers every request with a reply of the fixed length *)

\* the reply payloads the device is given to send, per operation
DevicePayloads ==
    [ cmd_version |-> VersionPayloads, cmd_reset |-> NoPayload, cmd_load |-> NoPayload,
      cmd_cycle |-> NoPayload, cmd_read_address |-> AddressPayloads,
      cmd_read_status |-> BytePayloads, cmd_read_8288_command |-> BytePayloads,
      cmd_read_8288_control |-> BytePayloads, cmd_store |-> StorePayloads ]

\* replies of exactly the fixed length of operation o, ending in 0x00 or 0x01
ExactReplies(o) ==
    {pl \o <<s>> : pl \in {q \in DevicePayloads[o] : Len(q) = ReplyLen[o] - 1},
                   s \in {0, 1}}

\* a call of o during which exactly one such reply arrives
Answered(o) ==
    \E a \in ExactReplies(o) : Call(o, NoArgs, Run(o, NoArgs, rx \o a))

Answered_cmd_version == Answered("cmd_version")
Answered_cmd_reset == Answered("cmd_reset")
Answered_cmd_cycle == Answered("cmd_cycle")
Answered_cmd_read_address == Answered("cmd_read_address")
Answered_cmd_read_status == Answered("cmd_read_status")
Answered_cmd_read_8288_command == Answered("cmd_read_8288_command")
Answered_cmd_read_8288_control == Answered("cmd_read_8288_control")
Answered_cmd_store == Answered("cmd_store")

\* cmd_load: the device answers if a request reaches it, that is, if the
\* registers fit
Answered_cmd_load ==
    \E r \in GoodRegs \cup BadRegs :
        \E a \in (IF \A k \in 1..14 : FitsUint16(r[RegOrder[k]])
                    THEN ExactReplies("cmd_load") ELSE {<<>>}) :
            Call("cmd_load", [kind |-> "regs", regs |-> r], cmd_load(r, rx \o a))

NextAnswered ==
    \/ Answered_cmd_version
    \/ Answered_cmd_reset
    \/ Answered_cmd_load
    \/ Answered_cmd_cycle
    \/ Answered_cmd_read_address
    \/ Answered_cmd_read_status
    \/ Answered_cmd_read_8288_command
    \/ Answered_cmd_read_8288_control
    \/ Answered_cmd_store
    \/ Consume

SpecAnswered == Init /\ [][NextAnswered]_vars

\* C18: when the device answers every request with a reply of exactly the
\* operation's fixed length ending in 0x00 or 0x01, then after any sequence of
\* typed operations the engine has consumed every byte the device has sent:
\* nothing is left in the input buffer, and every call that sent a request
\* has read a whole reply, its own.
C18_FrameAligned ==
    /\ rx = <<>>
    /\ (Returned(TypedOps) /\ Written # <<>>)
          => (FullReply /\ Len(rcv) = ReplyLen[op] /\ LastByte \in {0, 1})

\* a rejected cmd_store has consumed its 29 bytes and left the buffer empty
C18_Witness ==
    /\ Returned({"cmd_store"})
    /\ Len(rcv) = 29 /\ LastByte = 0
    /\ result = None
    /\ rx = <<>>

-----------------------------------------------------------------------------
(* C15: two callers on one engine *)

\* the operations the concurrent callers invoke, and the replies of the device
ConcOps == {"cmd_reset", "cmd_read_address"}
ConcReplies(o) ==
    IF o = "cmd_reset" THEN {<<0>>, <<1>>}
    ELSE {<<52, 18, 0, 1>>, <<255, 255, 255, 0>>}

Tagged(c, evs) == [i \in 1..Len(evs) |-> [who |-> c, ev |-> evs[i].ev]]

\* caller c enters o and _send_command writes the request; no lock is taken
T_Send(c, o) ==
    /\ thr[c].at = "idle"
    /\ thr[c].calls < MaxCalls
    /\ thr' = [thr EXCEPT ![c] = [at |-> "sent", op |-> o, rcv |-> <<>>,
                                  result |-> None, got |-> {}, todo |-> <<>>,
                                  calls |-> thr[c].calls + 1]]
    /\ trace' = trace \o Tagged(c, send_command(CommandOf[o], NoData).log)
    /\ pending' = Append(pending, [who |-> c, op |-> o])
    /\ UNCHANGED <<rx, owner>>
    /\ UNCHANGED soloVars

\* the device answers the oldest request it has
DeviceReply ==
    /\ pending # <<>>
    /\ \E a \in ConcReplies(Head(pending).op) :
          /\ rx' = rx \o a
          /\ owner' = owner \o [i \in 1..Len(a) |-> Head(pending).who]
    /\ pending' = Tail(pending)
    /\ UNCHANGED <<thr, trace>>
    /\ UNCHANGED soloVars

\* the transport calls of _receive_n within the calls log of a method that
\* sends no payload, in order: the read, then the sleep and the flush if the
\* reply is out of sync
ReceiveSteps(evs) == SubSeq(evs, 2, Len(evs))

\* the fd.read at the head of steps returns with what the input buffer holds
\* (all n bytes, or fewer when the timeout ends the read); res is what the
\* method makes of these bytes
ReadStep(c, steps, res) ==
    LET rd == FdRead(Head(steps).arg[1], rx)
    IN  /\ rx' = rd.rest
        /\ owner' = SubSeq(owner, Len(rd.data) + 1, Len(owner))
        /\ thr' = [thr EXCEPT ![c] =
                      [@ EXCEPT !.at = IF Tail(steps) = <<>> THEN "done" ELSE "resync",
                                !.rcv = rd.data,
                                !.result = res,
                                !.got = {owner[i] : i \in 1..Len(rd.data)},
                                !.todo = Tail(steps)]]
        /\ trace' = trace \o Tagged(c, <<Head(steps)>>)

\* caller c's fd.read returns; the method's result is fixed by the bytes read,
\* and the caller goes on to return or to resynchronize
T_ReadOf(c, out) ==
    /\ ReadStep(c, ReceiveSteps(out.log), out.result)
    /\ UNCHANGED pending
    /\ UNCHANGED soloVars

T_Read(c) ==
    /\ thr[c].at = "sent"
    /\ T_ReadOf(c, Run(thr[c].op, NoArgs, rx))

\* caller c, out of sync, enters time.sleep(0.11); other threads run meanwhile
T_Sleep(c) ==
    /\ thr[c].at = "resync"
    /\ Head(thr[c].todo).ev = "sleep"
    /\ thr' = [thr EXCEPT ![c] =
                  [@ EXCEPT !.at = IF Tail(thr[c].todo) = <<>> THEN "done" ELSE "resync",
                            !.todo = Tail(thr[c].todo)]]
    /\ trace' = trace \o Tagged(c, <<Head(thr[c].todo)>>)
    /\ UNCHANGED <<rx, pending, owner>>
    /\ UNCHANGED soloVars

\* caller c, out of sync, calls fd.flush() on the input buffer as it is then
T_Flush(c) ==
    /\ thr[c].at = "resync"
    /\ Head(thr[c].todo).ev = "flush"
    /\ rx' = FdFlush(rx)
    /\ owner' = SubSeq(owner, Len(owner) - Len(FdFlush(rx)) + 1, Len(owner))
    /\ thr' = [thr EXCEPT ![c] =
                  [@ EXCEPT !.at = IF Tail(thr[c].todo) = <<>> THEN "done" ELSE "resync",
                            !.todo = Tail(thr[c].todo)]]
    /\ trace' = trace \o Tagged(c, <<Head(thr[c].todo)>>)
    /\ UNCHANGED pending
    /\ UNCHANGED soloVars

\* caller c has used the result
T_Return(c) ==
    /\ thr[c].at = "done"
    /\ thr' = [thr EXCEPT ![c] = IdleCaller(thr[c].calls)]
    /\ UNCHANGED <<rx, trace, pending, owner>>
    /\ UNCHANGED soloVars

NextConc ==
    \/ \E c \in Callers, o \in ConcOps : T_Send(c, o)
    \/ DeviceReply
    \/ \E c \in Callers : T_Read(c)
    \/ \E c \in Callers : T_Sleep(c)
    \/ \E c \in Callers : T_Flush(c)
    \/ \E c \in Callers : T_Return(c)

SpecConc == Init /\ [][NextConc]_vars

\* C15: with two callers on one engine the exchanges are serialized: between
\* a caller's write of its request and its read of the reply no other caller
\* writes or reads, and no caller consumes a byte that answers the other's
\* request.
C15_ExchangesSerialized ==
    /\ \A c \in Callers : thr[c].got \subseteq {c}
    /\ \A i, j \in 1..Len(trace) :
          (/\ i < j
           /\ trace[i].who = trace[j].who
           /\ trace[i].ev = "write" /\ trace[j].ev = "read"
           /\ \A k \in (i + 1)..(j - 1) :
                 trace[k].who = trace[i].who => trace[k].ev # "read")
            => \A k \in (i + 1)..(j - 1) : trace[k].who = trace[i].who

=============================================================================
